---------------------------- MODULE Spec2Model ----------------------------
(***************************************************************************)
(* A model of the implicitly restarted Arnoldi solver GenEigsSolver, its   *)
(* shift-and-invert subclass GenEigsRealShiftSolver and the DoubleShiftQR  *)
(* class of src/include/GenEigsSolver.h.                                   *)
(*                                                                         *)
(* Numbers.  The operator A, the Arnoldi vectors and the eigensolver of    *)
(* Eigen are outside the repository: the model keeps of them what the      *)
(* control flow of the solver reads.  The norm of a vector is kept as its  *)
(* position relative to prec = eps^(2/3) and is drawn where the code reads *)
(* it; the Ritz values are exact complex rationals drawn from a small set; *)
(* the outcome of the convergence test is any mask.  For exact rationals   *)
(* is_complex(v, prec) is "imaginary part not zero" and                    *)
(* is_conj(v1, v2, prec) is "v1 equals the conjugate of v2".               *)
(* DoubleShiftQR is modelled in exact rational arithmetic on small         *)
(* matrices; its near-zero tests (<= eps^0.9) are then tests for zero.     *)
(*                                                                         *)
(* Reads and writes outside an array are undefined behaviour: the value    *)
(* read is arbitrary, and the process is stopped or goes on.               *)
(*                                                                         *)
(* Extent.  In Spec a solver is constructed, initialised until init        *)
(* succeeds, and computed once; CallsSpec goes on with up to MaxMore       *)
(* further calls of init() and compute().  compute() is called on a solver *)
(* that init initialised.  A DoubleShiftQR object takes up to MaxQRCalls   *)
(* calls, of which one compute() that returns: a later one would assign    *)
(* every member anew.                                                      *)
(***************************************************************************)
EXTENDS Integers, Sequences, FiniteSets, TLC

VARIABLES
    pc,         \* position of the caller / of compute() in the solver
    dim_n,      \* GenEigsSolver::dim_n
    nev,        \* GenEigsSolver::nev
    ncv,        \* GenEigsSolver::ncv
    rule,       \* template parameter SelectionRule
    shifted,    \* TRUE for a GenEigsRealShiftSolver
    sigma,      \* GenEigsRealShiftSolver::sigma
    nmatop,     \* GenEigsSolver::nmatop
    niter,      \* GenEigsSolver::niter
    beta,       \* local beta = fac_f.norm() of factorize_from(), relative to prec
    ritz_val,   \* GenEigsSolver::ritz_val, indices 0..ncv-1 kept at 1..ncv
    ritz_vec,   \* GenEigsSolver::ritz_vec: per column, the Ritz value it belongs to
    ritz_conv,  \* GenEigsSolver::ritz_conv, indices 0..nev-1 kept at 1..nev
    err,        \* the exception the last call threw, "none" if it returned
    maxit,      \* argument of the running compute()
    it,         \* loop variable i of compute()
    nconv,      \* local nconv of compute()
    nev_adj,    \* local nev_adj of compute()
    fi,         \* loop variable i of factorize_from()
    caller,     \* who called factorize_from(): "compute" or "restart"
    ret,        \* the value compute() returned
    hist,       \* history of the running call (what the claims speak about)
    qr          \* a DoubleShiftQR object and the outcome of the last call on it

vars == <<pc, dim_n, nev, ncv, rule, shifted, sigma, nmatop, niter, beta,
          ritz_val, ritz_vec, ritz_conv, err, maxit, it, nconv, nev_adj, fi,
          caller, ret, hist, qr>>

solver_vars == <<pc, dim_n, nev, ncv, rule, shifted, sigma, nmatop, niter, beta,
                 ritz_val, ritz_vec, ritz_conv, err, maxit, it, nconv, nev_adj,
                 fi, caller, ret, hist>>

(***************************************************************************)
(* Bounds of the model.                                                    *)
(***************************************************************************)
MaxN == 3        \* largest operator dimension n
MaxIt == 2       \* largest maxit passed to compute()
MaxQN == 3       \* largest number of rows and of columns of a matrix given to DoubleShiftQR
MaxQRCalls == 3  \* largest number of calls on one DoubleShiftQR object
MaxMore == 1     \* largest number of further init() and compute() calls on a solver

\* the shifts sigma of a GenEigsRealShiftSolver
Sigmas == {0, 1}

Min(a, b) == IF a <= b THEN a ELSE b
Abs(a) == IF a < 0 THEN -a ELSE a

RECURSIVE Gcd(_, _)
Gcd(a, b) == IF b = 0 THEN a ELSE Gcd(b, a % b)

(***************************************************************************)
(* std::complex<Scalar>: the exact value (re + i im) / den, den > 0 and    *)
(* the three integers without a common factor.                             *)
(***************************************************************************)
Cx(a, b, d) ==
    LET g == Gcd(Gcd(Abs(a), Abs(b)), d)
    IN  [re |-> a \div g, im |-> b \div g, den |-> d \div g]

Conj(v) == [re |-> v.re, im |-> -v.im, den |-> v.den]

Norm2Num(v) == v.re * v.re + v.im * v.im

\* the values the eigensolver of the small matrix H may return
RitzDomain == <<Cx(1, 0, 1), Cx(2, 0, 1), Cx(1, 1, 1), Cx(1, -1, 1)>>

is_complex(v) == v.im # 0

is_conj(v1, v2) == v1 = Conj(v2)

(***************************************************************************)
(* EigenvalueComparator<Complex, SelectionRule> (SelectionRule.h): v1 is   *)
(* ordered before v2.  Primary key and tie-break of each rule.             *)
(***************************************************************************)
Rules == {"LARGEST_MAGN", "LARGEST_REAL", "LARGEST_IMAG",
          "SMALLEST_MAGN", "SMALLEST_REAL", "SMALLEST_IMAG"}

AbsLess(v1, v2) == Norm2Num(v1) * v2.den * v2.den < Norm2Num(v2) * v1.den * v1.den
ReLess(v1, v2) == v1.re * v2.den < v2.re * v1.den
ImLess(v1, v2) == v1.im * v2.den < v2.im * v1.den
AbsImLess(v1, v2) == Abs(v1.im) * v2.den < Abs(v2.im) * v1.den

Lex(p1, p2, t1) == p1 \/ (~p2 /\ t1)

EigenvalueComparator(r, v1, v2) ==
    CASE r = "LARGEST_MAGN"  -> Lex(AbsLess(v2, v1), AbsLess(v1, v2), ReLess(v2, v1))
      [] r = "LARGEST_REAL"  -> Lex(ReLess(v2, v1), ReLess(v1, v2), ImLess(v2, v1))
      [] r = "LARGEST_IMAG"  -> Lex(AbsImLess(v2, v1), AbsImLess(v1, v2), ReLess(v2, v1))
      [] r = "SMALLEST_MAGN" -> Lex(AbsLess(v1, v2), AbsLess(v2, v1), ReLess(v1, v2))
      [] r = "SMALLEST_REAL" -> Lex(ReLess(v1, v2), ReLess(v2, v1), ImLess(v1, v2))
      [] r = "SMALLEST_IMAG" -> Lex(AbsImLess(v1, v2), AbsImLess(v2, v1), ReLess(v1, v2))

(***************************************************************************)
(* std::sort(pairs.begin(), pairs.end(), comp): the permutations p with    *)
(* s[p[1]], s[p[2]], ... in the order of comp.  std::sort is not stable:   *)
(* elements that comp does not order come out in any order.                *)
(***************************************************************************)
Perms(m) == {p \in [1..m -> 1..m] : \A i, j \in 1..m : i # j => p[i] # p[j]}

PermsOf == [m \in 0..(MaxN + 1) |-> Perms(m)]

std_sort(r, s) ==
    {p \in PermsOf[Len(s)] :
        \A i, j \in 1..Len(s) : i < j => ~EigenvalueComparator(r, s[p[j]], s[p[i]])}

Permuted(s, p) == [i \in 1..Len(s) |-> s[p[i]]]


(***************************************************************************)
(* Eigen::EigenSolver on the real matrix fac_H: ncv eigenvalues, closed    *)
(* under complex conjugation.  One sequence per multiset (std_sort does    *)
(* not depend on the order it is given).                                   *)
(***************************************************************************)
Count(s, v) == Cardinality({i \in 1..Len(s) : s[i] = v})

ConjClosed(s) == \A i \in 1..Len(s) : Count(s, s[i]) = Count(s, Conj(s[i]))

EigenSolver(m) ==
    {[i \in 1..m |-> RitzDomain[ix[i]]] :
        ix \in {jx \in [1..m -> 1..Len(RitzDomain)] :
                    /\ \A i \in 1..(m - 1) : jx[i] <= jx[i + 1]
                    /\ ConjClosed([i \in 1..m |-> RitzDomain[jx[i]]])}}

(***************************************************************************)
(* GenEigsSolver::retrieve_ritzpair: the values ritz_val may take, the     *)
(* eigenvalues of fac_H in the order of the selection rule.                *)
(***************************************************************************)
retrieve_ritzpair(r, m) ==
    UNION {{Permuted(evals, p) : p \in std_sort(r, evals)} : evals \in EigenSolver(m)}

Retrieved == [r \in Rules |-> [m \in 1..(MaxN + 1) |-> retrieve_ritzpair(r, m)]]

(***************************************************************************)
(* Reads of ritz_val by a C++ index.  A read outside 0..ncv-1 is undefined *)
(* behaviour: the value read is arbitrary.                                 *)
(***************************************************************************)
InRange(rv, j) == j \in 0..(Len(rv) - 1)
At(rv, j) == rv[j + 1]

\* the values of is_complex(ritz_val[j], prec) && is_conj(ritz_val[j], ritz_val[j + 1], prec)
conj_pair_at(rv, j) ==
    IF ~InRange(rv, j) THEN BOOLEAN
    ELSE IF ~is_complex(At(rv, j)) THEN {FALSE}
    ELSE IF ~InRange(rv, j + 1) THEN BOOLEAN
    ELSE {is_conj(At(rv, j), At(rv, j + 1))}

\* that expression reads outside ritz_val
conj_pair_oob(rv, j) ==
    \/ ~InRange(rv, j)
    \/ is_complex(At(rv, j)) /\ ~InRange(rv, j + 1)

(***************************************************************************)
(* GenEigsSolver::nev_adjusted(nconv): the values it may return, each with *)
(* whether it read outside ritz_val.                                       *)
(***************************************************************************)
nev_bumped(nev_, c) == IF c THEN nev_ + 1 ELSE nev_

nev_regular(nev_new, ncv_, nconv_) ==
    LET n2 == nev_new + Min(nconv_, (ncv_ - nev_new) \div 2)
        n3 == IF n2 = 1 /\ ncv_ >= 6 THEN ncv_ \div 2
              ELSE IF n2 = 1 /\ ncv_ > 3 THEN 2
              ELSE n2
    IN  IF n3 > ncv_ - 2 THEN ncv_ - 2 ELSE n3

nev_adjusted(rv, nev_, ncv_, nconv_) ==
    UNION {
        LET n4 == nev_regular(nev_bumped(nev_, c1), ncv_, nconv_)
        IN  {[k |-> nev_bumped(n4, c2),
              oob |-> conj_pair_oob(rv, nev_ - 1) \/ conj_pair_oob(rv, n4 - 1)] :
                 c2 \in conj_pair_at(rv, n4 - 1)}
        : c1 \in conj_pair_at(rv, nev_ - 1)}

(***************************************************************************)
(* The shift loop of GenEigsSolver::restart(k): for(i = k; i < ncv; i++).  *)
(* The shifts it applies in order, each with whether the loop read outside *)
(* ritz_val.                                                               *)
(***************************************************************************)
double_shift(v, j) ==
    [kind |-> "double", i |-> j, re2 |-> Cx(2 * v.re, 0, v.den),
     s |-> Cx(Norm2Num(v), 0, v.den * v.den)]

single_shift(v, j) == [kind |-> "single", i |-> j, mu |-> Cx(v.re, 0, v.den)]

RECURSIVE shift_loop(_, _)
shift_loop(rv, j) ==
    IF j >= Len(rv) THEN {[shifts |-> <<>>, oob |-> FALSE]}
    ELSE UNION {
        LET rest == shift_loop(rv, IF c THEN j + 2 ELSE j + 1)
            this == IF c THEN double_shift(At(rv, j), j) ELSE single_shift(At(rv, j), j)
        IN  {[shifts |-> <<this>> \o r.shifts,
              oob |-> r.oob \/ conj_pair_oob(rv, j)] : r \in rest}
        : c \in conj_pair_at(rv, j)}

(***************************************************************************)
(* GenEigsSolver::sort_ritzpair and its override in                        *)
(* GenEigsRealShiftSolver: the first nev Ritz values, transformed by       *)
(* 1/theta + sigma in the shift-and-invert solver, sorted by LARGEST_MAGN. *)
(***************************************************************************)
head(s, k) == [i \in 1..k |-> s[i]]

\* Scalar(1.0) / theta + sigma
shift_transform(v, sg) ==
    Cx(v.den * v.re + sg * Norm2Num(v), -(v.den * v.im), Norm2Num(v))

sort_input(rv, nev_, sh, sg) ==
    IF sh THEN [i \in 1..nev_ |-> shift_transform(rv[i], sg)] ELSE head(rv, nev_)

\* a variant that orders the values as they were before the transformation
sort_order_untransformed(rv, nev_, sh, sg) == std_sort("LARGEST_MAGN", head(rv, nev_))

sort_order(rv, nev_, sh, sg) == std_sort("LARGEST_MAGN", sort_input(rv, nev_, sh, sg))

sorted_val(rv, nev_, sh, sg, p) ==
    [i \in 1..Len(rv) |-> IF i <= nev_ THEN sort_input(rv, nev_, sh, sg)[p[i]] ELSE rv[i]]

sorted_vec(vec, p) == Permuted(vec, p)

sorted_conv(conv, p) == Permuted(conv, p)

(***************************************************************************)
(* GenEigsSolver::eigenvalues() and eigenvectors(): the entries, and the   *)
(* columns, whose ritz_conv flag is set.                                   *)
(***************************************************************************)
RECURSIVE converged_of(_, _, _)
converged_of(s, conv, i) ==
    IF i > Len(conv) THEN <<>>
    ELSE (IF conv[i] THEN <<s[i]>> ELSE <<>>) \o converged_of(s, conv, i + 1)

eigenvalues == converged_of(ritz_val, ritz_conv, 1)

eigenvectors == converged_of(ritz_vec, ritz_conv, 1)

num_iterations == niter

num_operations == nmatop

(***************************************************************************)
(* The constructor, init and the pieces of compute.                        *)
(***************************************************************************)
\* a variant that admits nev = n
ctor_throws_weak(n_, nev_, ncv_) == nev_ < 1 \/ nev_ > n_ \/ ncv_ <= nev_

ctor_throws(n_, nev_, ncv_) == nev_ < 1 \/ nev_ >= n_ \/ ncv_ <= nev_

ctor_ncv(n_, ncv_) == IF ncv_ > n_ THEN n_ ELSE ncv_

\* a norm relative to prec: below it, equal to it, above it
NormClass == {"below", "equal", "above"}

\* beta = fac_f.norm() relative to prec: at most prec, above it
BetaClass == {"at_most", "above"}

\* a variant that throws at vnorm <= prec
init_throws_nonstrict(vnorm) == vnorm # "above"

\* if(vnorm < prec) throw
init_throws(vnorm) == vnorm = "below"

\* ritz_conv = (resid < thresh); return ritz_conv.cast<int>().sum()
num_converged(conv) == Cardinality({i \in 1..Len(conv) : conv[i]})

\* a variant that breaks at nconv > nev only
loop_breaks_strict(nconv_, nev_) == nconv_ > nev_

\* if(nconv >= nev) break
loop_breaks(nconv_, nev_) == nconv_ >= nev_

\* a variant that returns the number of values asked for
compute_return_nev(nev_, nconv_) == nev_

\* return std::min(nev, nconv)
compute_return(nev_, nconv_) == Min(nev_, nconv_)

\* a variant that counts an operator application twice
nmatop_twice(nmatop_) == nmatop_ + 2

\* nmatop++
nmatop_next(nmatop_) == nmatop_ + 1

\* niter += i + 1
niter_after(niter_, i_) == niter_ + i_ + 1

Zero == Cx(0, 0, 1)

NoHist ==
    [last |-> "none", arg |-> <<>>, ops_before |-> 0, restarts |-> 0, stopped |-> FALSE,
     oob |-> FALSE, shifts |-> <<>>, op_calls |-> 0, due |-> 0, more |-> 0,
     fresh |-> FALSE, passed |-> {}]

(***************************************************************************)
(* Scalar of DoubleShiftQR: the exact rational num / den, kept as          *)
(* <<num, den>> in lowest terms with den > 0.                              *)
(***************************************************************************)
Q(a, b) == LET g == Gcd(Abs(a), b) IN <<a \div g, b \div g>>

QInt(a) == <<a, 1>>

QZero == QInt(0)

QAdd(x, y) == Q(x[1] * y[2] + y[1] * x[2], x[2] * y[2])
QSub(x, y) == Q(x[1] * y[2] - y[1] * x[2], x[2] * y[2])
QMul(x, y) == Q(x[1] * y[1], x[2] * y[2])
QDiv(x, y) ==
    IF y[1] > 0 THEN Q(x[1] * y[2], x[2] * y[1]) ELSE Q(-(x[1] * y[2]), -(x[2] * y[1]))

\* std::sqrt, where the root is rational
IsSquare(a) == \E r \in 0..a : r * r = a
IntSqrt(a) == CHOOSE r \in 0..a : r * r = a
QIsSquare(x) == x[1] >= 0 /\ IsSquare(x[1]) /\ IsSquare(x[2])
QSqrt(x) == <<IntSqrt(x[1]), IntSqrt(x[2])>>

(***************************************************************************)
(* Eigen::Matrix: the sequence of its rows; El(H, i, j) is H(i, j) of the  *)
(* code, indices from 0.  Dense(f, r, c) is the r x c matrix of the        *)
(* entries f[i, j].                                                        *)
(***************************************************************************)
El(H, i, j) == H[i + 1][j + 1]

RECURSIVE RowOf(_, _, _)
RowOf(f, i, c) == IF c = 0 THEN <<>> ELSE Append(RowOf(f, i, c - 1), f[i, c - 1])

RECURSIVE Dense(_, _, _)
Dense(f, r, c) == IF r = 0 THEN <<>> ELSE Append(Dense(f, r - 1, c), RowOf(f, r - 1, c))

Rows(H) == Len(H)
Cols(H) == IF Len(H) = 0 THEN 0 ELSE Len(H[1])

(***************************************************************************)
(* DoubleShiftQR::compute_reflector(x1, x2, x3, ind): the column ind of    *)
(* ref_u.  The code stores the unit vector u = v / ||v|| (0 when v = 0);   *)
(* the model keeps v, and applies P = I - 2 u u' as I - 2 v v' / (v'v).    *)
(* ok is FALSE when sqrt(x1^2 + x2^2 + x3^2) is needed and is irrational.  *)
(***************************************************************************)
ZeroU == <<QZero, QZero, QZero>>

compute_reflector(x1, x2, x3) ==
    LET tmp == QAdd(QMul(x2, x2), QMul(x3, x3))
        \* (x1 < 0) - (x1 > 0)
        rho == (IF x1[1] < 0 THEN 1 ELSE 0) - (IF x1[1] > 0 THEN 1 ELSE 0)
        sq == QAdd(QMul(x1, x1), tmp)
    IN  IF rho = 0 THEN [ok |-> TRUE, u |-> <<x1, x2, x3>>]
        ELSE IF ~QIsSquare(sq) THEN [ok |-> FALSE, u |-> ZeroU]
        ELSE [ok |-> TRUE, u |-> <<QSub(x1, QMul(QInt(rho), QSqrt(sq))), x2, x3>>]

UU(u) == QAdd(QAdd(QMul(u[1], u[1]), QMul(u[2], u[2])), QMul(u[3], u[3]))

\* apply_PX(X, u_ind) on the block X of nrow x ncol at (r0, c0) of H
apply_PX(H, r0, c0, nrow, ncol, u) ==
    LET k == IF nrow = 2 THEN 2 ELSE 3
        tmp(j) == QAdd(QAdd(QMul(u[1], El(H, r0, j)), QMul(u[2], El(H, r0 + 1, j))),
                       IF k = 3 THEN QMul(u[3], El(H, r0 + 2, j)) ELSE QZero)
        new(i, j) == QSub(El(H, i, j),
                          QDiv(QMul(QMul(QInt(2), tmp(j)), u[i - r0 + 1]), UU(u)))
    IN  IF UU(u) = QZero THEN H
        ELSE Dense([i \in 0..(Rows(H) - 1), j \in 0..(Cols(H) - 1) |->
                       IF i \in r0..(r0 + k - 1) /\ j \in c0..(c0 + ncol - 1)
                       THEN new(i, j) ELSE El(H, i, j)],
                   Rows(H), Cols(H))

\* apply_XP(X, u_ind) on the block X of nrow x ncol at (r0, c0) of H
apply_XP(H, r0, c0, nrow, ncol, u) ==
    LET k == IF ncol = 2 THEN 2 ELSE 3
        tmp(i) == QAdd(QAdd(QMul(u[1], El(H, i, c0)), QMul(u[2], El(H, i, c0 + 1))),
                       IF k = 3 THEN QMul(u[3], El(H, i, c0 + 2)) ELSE QZero)
        new(i, j) == QSub(El(H, i, j),
                          QDiv(QMul(QMul(QInt(2), tmp(i)), u[j - c0 + 1]), UU(u)))
    IN  IF UU(u) = QZero THEN H
        ELSE Dense([i \in 0..(Rows(H) - 1), j \in 0..(Cols(H) - 1) |->
                       IF i \in r0..(r0 + nrow - 1) /\ j \in c0..(c0 + k - 1)
                       THEN new(i, j) ELSE El(H, i, j)],
                   Rows(H), Cols(H))

(***************************************************************************)
(* DoubleShiftQR::compute_reflectors_from_block(X, start_ind) on the block *)
(* of nrow x nrow at (start, start) of mat_H.  st is [H, U, ok]: mat_H,    *)
(* ref_u and whether every square root so far was rational.                *)
(***************************************************************************)
SetU(U, ind, u) == [U EXCEPT ![ind + 1] = u]

reflect(st, ind, r, HP) ==
    IF ~r.ok THEN [st EXCEPT !.ok = FALSE]
    ELSE [H |-> HP, U |-> SetU(st.U, ind, r.u), ok |-> st.ok]

first_reflector(st, s, t, start, nrow) ==
    LET X(i, j) == El(st.H, start + i, start + j)
        x == QAdd(QAdd(QMul(X(0, 0), QSub(X(0, 0), s)), QMul(X(0, 1), X(1, 0))), t)
        y == QMul(X(1, 0), QSub(QAdd(X(0, 0), X(1, 1)), s))
        z == QMul(X(2, 1), X(1, 0))
        r == compute_reflector(x, y, z)
        H1 == apply_PX(st.H, start, start, 3, nrow, r.u)
        H2 == apply_XP(H1, start, start, Min(nrow, 4), 3, r.u)
    IN  reflect(st, start, r, H2)

RECURSIVE following_reflectors(_, _, _, _)
following_reflectors(st, start, nrow, i) ==
    IF i >= nrow - 2 \/ ~st.ok THEN st
    ELSE LET X(a, b) == El(st.H, start + a, start + b)
             r == compute_reflector(X(i, i - 1), X(i + 1, i - 1), X(i + 2, i - 1))
             H1 == apply_PX(st.H, start + i, start + i - 1, 3, nrow - i + 1, r.u)
             H2 == apply_XP(H1, start, start + i, Min(nrow, i + 4), 3, r.u)
         IN  following_reflectors(reflect(st, start + i, r, H2), start, nrow, i + 1)

last_reflector(st, start, nrow) ==
    IF ~st.ok THEN st
    ELSE LET X(a, b) == El(st.H, start + a, start + b)
             r == compute_reflector(X(nrow - 2, nrow - 3), X(nrow - 1, nrow - 3), QZero)
             H1 == apply_PX(st.H, start + nrow - 2, start + nrow - 3, 2, 3, r.u)
             H2 == apply_XP(H1, start, start + nrow - 2, nrow, 2, r.u)
             st1 == reflect(st, start + nrow - 2, r, H2)
         IN  [st1 EXCEPT !.U = SetU(st1.U, start + nrow - 1, ZeroU)]

compute_reflectors_from_block(st, s, t, start, nrow) ==
    IF nrow = 1 THEN [st EXCEPT !.U = SetU(st.U, start, ZeroU)]
    ELSE IF nrow = 2
         THEN [st EXCEPT !.U = SetU(SetU(st.U, start, ZeroU), start + 1, ZeroU)]
    ELSE last_reflector(
             following_reflectors(first_reflector(st, s, t, start, nrow), start, nrow, 1),
             start, nrow)

(***************************************************************************)
(* The body of DoubleShiftQR::compute(mat, s, t) for a square mat of n >= 1 *)
(* rows: mat_H, the zero_ind loop, and the loop over the blocks.            *)
(***************************************************************************)
\* mat_H = mat.triangularView<Eigen::Upper>(); mat_H.diagonal(-1) = mat.diagonal(-1)
hessenberg_part(mat) ==
    Dense([i \in 0..(Rows(mat) - 1), j \in 0..(Cols(mat) - 1) |->
              IF j >= i - 1 THEN El(mat, i, j) ELSE QZero],
          Rows(mat), Cols(mat))

RECURSIVE zero_ind_from(_, _, _)
zero_ind_from(H, n_, i) ==
    IF i >= n_ - 1 THEN <<n_>>
    ELSE (IF El(H, i, i - 1) = QZero THEN <<i>> ELSE <<>>) \o zero_ind_from(H, n_, i + 1)

zero_ind_of(H, n_) == <<0>> \o zero_ind_from(H, n_, 1)

\* for(j = start; j < end; j++) apply_PX(mat_H.block(j, end + 1, ...), j)
RECURSIVE apply_right(_, _, _, _)
apply_right(st, j, end, n_) ==
    IF j >= end THEN st
    ELSE apply_right(
             [st EXCEPT !.H = apply_PX(st.H, j, end + 1, Min(3, end - j + 1),
                                       n_ - 1 - end, st.U[j + 1])],
             j + 1, end, n_)

\* for(j = start; j < end; j++) apply_XP(mat_H.block(0, j, start, ...), j)
RECURSIVE apply_above(_, _, _, _)
apply_above(st, j, start, end) ==
    IF j >= end THEN st
    ELSE apply_above(
             [st EXCEPT !.H = apply_XP(st.H, 0, j, start, Min(3, end - j + 1),
                                       st.U[j + 1])],
             j + 1, start, end)

RECURSIVE blocks_loop(_, _, _, _, _, _)
blocks_loop(st, s, t, zero_ind, i, n_) ==
    IF i > Len(zero_ind) - 1 \/ ~st.ok THEN st
    ELSE LET start == zero_ind[i]
             end == zero_ind[i + 1] - 1
             st1 == compute_reflectors_from_block(st, s, t, start, end - start + 1)
             st2 == IF st1.ok /\ end < n_ - 1 /\ end - start >= 2
                    THEN apply_right(st1, start, end, n_) ELSE st1
             st3 == IF st1.ok /\ start > 0 /\ end - start >= 2
                    THEN apply_above(st2, start, start, end) ELSE st2
         IN  blocks_loop(st3, s, t, zero_ind, i + 1, n_)

compute_body(mat, s, t) ==
    LET n_ == Rows(mat)
        H0 == hessenberg_part(mat)
    IN  blocks_loop([H |-> H0, U |-> [i \in 1..n_ |-> ZeroU], ok |-> TRUE],
                    s, t, zero_ind_of(H0, n_), 1, n_)

(***************************************************************************)
(* The matrices and shifts given to DoubleShiftQR: upper Hessenberg        *)
(* matrices with entries in QEntries (one value above the diagonal), and   *)
(* of them those whose reflectors have rational norms.                     *)
(***************************************************************************)
QEntries == {0, 1}

hessenberg_input(n_, sub, dg, up) ==
    Dense([i \in 0..(n_ - 1), j \in 0..(n_ - 1) |->
              QInt(IF i = j THEN dg[i + 1]
                   ELSE IF i = j + 1 THEN sub[j + 1]
                   ELSE IF j > i THEN up ELSE 0)],
          n_, n_)

NoBody == [H |-> <<>>, U |-> <<>>, ok |-> TRUE]

SquareInputs ==
    UNION {
        {LET mat == hessenberg_input(n_, sub, dg, up)
         IN  [rows |-> n_, cols |-> n_, mat |-> mat, s |-> QInt(s), t |-> QInt(t),
              body |-> compute_body(mat, QInt(s), QInt(t))] :
            sub \in [1..(n_ - 1) -> QEntries], dg \in [1..n_ -> QEntries],
            up \in QEntries, s \in QEntries, t \in QEntries}
        : n_ \in 1..MaxQN}

\* matrices that are not square, and the matrix of no rows and no columns
OtherInputs ==
    {[rows |-> rc[1], cols |-> rc[2], mat |-> <<>>, s |-> QZero, t |-> QZero,
      body |-> NoBody] :
        rc \in {<<0, 0>>} \cup {x \in (0..MaxQN) \X {0, MaxQN} : x[1] # x[2]}}

QRInputs == {inp \in SquareInputs : inp.body.ok} \cup OtherInputs

(***************************************************************************)
(* A DoubleShiftQR object.  DoubleShiftQR() leaves shift_s and shift_t     *)
(* without a value.                                                        *)
(***************************************************************************)
DefaultQR ==
    [computed |-> FALSE, n |-> 0, mat_H |-> <<>>, shift_s |-> "none", shift_t |-> "none",
     ref_u |-> <<>>]

\* a variant that sets computed before it looks at the matrix
compute_marks_first(obj, inp) ==
    {[obj |-> [obj EXCEPT !.computed = TRUE],
      thrown |-> IF inp.rows # inp.cols THEN "invalid_argument" ELSE "none"]}

\* DoubleShiftQR::compute(mat, s, t): the object after the call and what the
\* call threw.  On a matrix of no rows, mat.diagonal(-1) is outside the matrix
\* (the process is stopped or goes on) and zero_ind.reserve(n - 1) throws.
compute(obj, inp) ==
    IF inp.rows # inp.cols THEN {[obj |-> obj, thrown |-> "invalid_argument"]}
    ELSE IF inp.rows = 0
         THEN {[obj |-> [obj EXCEPT !.n = 0, !.mat_H = <<>>, !.shift_s = inp.s,
                                    !.shift_t = inp.t, !.ref_u = <<>>],
                thrown |-> e] : e \in {"abort", "length_error"}}
    ELSE {[obj |-> [computed |-> TRUE, n |-> inp.rows, mat_H |-> inp.body.H,
                    shift_s |-> inp.s, shift_t |-> inp.t, ref_u |-> inp.body.U],
           thrown |-> "none"]}

\* if(!computed) throw std::logic_error
accessor_throws(obj) == ~obj.computed

\* apply_YQ: Y.block(0, n - 2, nrow, 2) and ref_u(., n - 2) are outside Y and ref_u
apply_YQ_oob(obj) == obj.n < 2

NoQR ==
    [state |-> "none", obj |-> DefaultQR, call |-> "none", arg |-> <<>>, thrown |-> "none",
     out |-> <<>>, completed |-> FALSE, oob |-> FALSE, done |-> 0]

Init ==
    /\ pc = "new"
    /\ dim_n = 0 /\ nev = 0 /\ ncv = 0
    /\ rule = "LARGEST_MAGN" /\ shifted = FALSE /\ sigma = 0
    /\ nmatop = 0 /\ niter = 0
    /\ beta = "none"
    /\ ritz_val = <<>> /\ ritz_vec = <<>> /\ ritz_conv = <<>>
    /\ err = "none"
    /\ maxit = 0 /\ it = 0 /\ nconv = 0 /\ nev_adj = 0 /\ fi = 0
    /\ caller = "none"
    /\ ret = 0
    /\ hist = NoHist
    /\ qr = NoQR

\* GenEigsSolver(op_, nev_, ncv_) and GenEigsRealShiftSolver(op_, nev_, ncv_, sigma_)
Construct ==
    /\ pc = "new"
    /\ \E n_ \in 1..MaxN, nev_ \in 0..MaxN, ncv_ \in 0..(MaxN + 1),
          r \in Rules, sh \in BOOLEAN, sg \in Sigmas :
        /\ sh \/ sg = 0
        /\ hist' = [hist EXCEPT !.last = "ctor", !.arg = <<n_, nev_, ncv_>>]
        /\ IF ctor_throws(n_, nev_, ncv_)
           THEN /\ pc' = "failed"
                /\ err' = "invalid_argument"
                /\ UNCHANGED <<dim_n, nev, ncv, rule, shifted, sigma>>
           ELSE /\ pc' = "ready"
                /\ err' = "none"
                /\ dim_n' = n_ /\ nev' = nev_ /\ ncv' = ctor_ncv(n_, ncv_)
                /\ rule' = r /\ shifted' = sh /\ sigma' = sg
    /\ UNCHANGED <<nmatop, niter, beta, ritz_val, ritz_vec, ritz_conv, maxit, it,
                   nconv, nev_adj, fi, caller, ret, qr>>

\* the body of init(init_resid); more_ is the number of further calls so far.
\* hist.op_calls counts the calls op->perform_op, hist.due the applications
\* the call is to make: one for an init that succeeds
init(more_) ==
    /\ \E vnorm \in NormClass :
        /\ ritz_val' = [i \in 1..ncv |-> Zero]
        /\ ritz_vec' = [i \in 1..nev |-> Zero]
        /\ ritz_conv' = [i \in 1..nev |-> FALSE]
        /\ IF init_throws(vnorm)
           THEN /\ err' = "invalid_argument"
                /\ UNCHANGED nmatop
                /\ hist' = [hist EXCEPT !.last = "init", !.arg = <<vnorm>>,
                                        !.ops_before = nmatop, !.more = more_]
           ELSE /\ err' = "none"
                /\ nmatop' = nmatop_next(nmatop)
                /\ hist' = [hist EXCEPT !.last = "init", !.arg = <<vnorm>>,
                                        !.ops_before = nmatop, !.more = more_,
                                        !.op_calls = @ + 1, !.due = @ + 1]
    /\ UNCHANGED <<pc, dim_n, nev, ncv, rule, shifted, sigma, niter, beta, maxit, it,
                   nconv, nev_adj, fi, caller, ret, qr>>

\* init(init_resid), and init() with its random residual, until it succeeds
InitResid ==
    /\ pc = "ready"
    /\ hist.last = "ctor" \/ (hist.last = "init" /\ err # "none")
    /\ init(hist.more)

\* compute(maxit, tol): entry, up to the call factorize_from(1, ncv, fac_f),
\* which is to apply the operator ncv - 1 times
compute_entry(more_) ==
    /\ \E mi \in 1..MaxIt :
        /\ maxit' = mi
        /\ hist' = [hist EXCEPT !.last = "compute", !.arg = <<mi>>,
                                !.ops_before = nmatop, !.restarts = 0,
                                !.stopped = FALSE, !.oob = FALSE, !.shifts = <<>>,
                                !.more = more_, !.due = @ + (ncv - 1),
                                !.fresh = FALSE, !.passed = {}]
    /\ pc' = "factorize" /\ caller' = "compute" /\ fi' = 1
    /\ UNCHANGED <<dim_n, nev, ncv, rule, shifted, sigma, nmatop, niter, beta,
                   ritz_val, ritz_vec, ritz_conv, err, it, nconv, nev_adj, ret, qr>>

\* the first compute() on a solver that init initialised
Compute ==
    /\ pc = "ready"
    /\ hist.last = "init" /\ err = "none"
    /\ compute_entry(hist.more)

\* one pass of the loop of factorize_from(from_k, ncv, fk): beta = fac_f.norm(),
\* v = fac_f / beta, op->perform_op, nmatop++, the new fac_f
FactorizeStep ==
    /\ pc = "factorize"
    /\ fi <= ncv - 1
    /\ \E b \in BetaClass : beta' = b
    /\ nmatop' = nmatop_next(nmatop)
    /\ hist' = [hist EXCEPT !.op_calls = @ + 1]
    /\ fi' = fi + 1
    /\ UNCHANGED <<pc, dim_n, nev, ncv, rule, shifted, sigma, niter, ritz_val,
                   ritz_vec, ritz_conv, err, maxit, it, nconv, nev_adj, caller,
                   ret, qr>>

\* the loop of factorize_from ends; retrieve_ritzpair(); back in the loop of compute
RetrieveRitzpair ==
    /\ pc = "factorize"
    /\ fi > ncv - 1
    /\ \E rv \in Retrieved[rule][ncv] :
        /\ ritz_val' = rv
        /\ ritz_vec' = head(rv, nev)
    /\ it' = IF caller = "compute" THEN 0 ELSE it + 1
    /\ pc' = "loop"
    /\ beta' = "none"
    /\ UNCHANGED <<dim_n, nev, ncv, rule, shifted, sigma, nmatop, niter,
                   ritz_conv, err, maxit, nconv, nev_adj, fi, caller, ret, hist, qr>>

\* for(i = 0; i < maxit; i++) { nconv = num_converged(tol); if(nconv >= nev) break;
\* hist.fresh: ritz_conv was evaluated on the Ritz pairs and the residual now
\* stored; hist.passed: the Ritz values that passed that test
LoopTest ==
    /\ pc = "loop"
    /\ it < maxit
    /\ \E conv \in [1..nev -> BOOLEAN] :
        /\ ritz_conv' = conv
        /\ nconv' = num_converged(conv)
        /\ hist' = [hist EXCEPT !.stopped = loop_breaks(num_converged(conv), nev),
                                !.fresh = TRUE,
                                !.passed = {ritz_val[i] : i \in {j \in 1..nev : conv[j]}}]
        /\ pc' = IF loop_breaks(num_converged(conv), nev) THEN "sort" ELSE "adjust"
    /\ UNCHANGED <<dim_n, nev, ncv, rule, shifted, sigma, nmatop, niter, beta,
                   ritz_val, ritz_vec, err, maxit, it, nev_adj, fi, caller, ret, qr>>

\* the loop of compute ends with i = maxit
LoopExit ==
    /\ pc = "loop"
    /\ it >= maxit
    /\ pc' = "sort"
    /\ UNCHANGED <<dim_n, nev, ncv, rule, shifted, sigma, nmatop, niter, beta,
                   ritz_val, ritz_vec, ritz_conv, err, maxit, it, nconv, nev_adj,
                   fi, caller, ret, hist, qr>>

\* nev_adj = nev_adjusted(nconv)
Adjust ==
    /\ pc = "adjust"
    /\ \E r \in nev_adjusted(ritz_val, nev, ncv, nconv) :
        /\ nev_adj' = r.k
        /\ hist' = [hist EXCEPT !.oob = @ \/ r.oob]
    /\ pc' = "restart"
    /\ UNCHANGED <<dim_n, nev, ncv, rule, shifted, sigma, nmatop, niter, beta,
                   ritz_val, ritz_vec, ritz_conv, err, maxit, it, nconv, fi,
                   caller, ret, qr>>

\* nev_adjusted reads outside ritz_val and the process is stopped
\* (the index assertion of Eigen, or a fault)
AdjustAbort ==
    /\ pc = "adjust"
    /\ \E r \in nev_adjusted(ritz_val, nev, ncv, nconv) : r.oob
    /\ pc' = "aborted"
    /\ hist' = [hist EXCEPT !.oob = TRUE]
    /\ UNCHANGED <<dim_n, nev, ncv, rule, shifted, sigma, nmatop, niter, beta,
                   ritz_val, ritz_vec, ritz_conv, err, maxit, it, nconv, nev_adj,
                   fi, caller, ret, qr>>

\* restart(k) reads em[k - 1] and fac_H(k, k - 1), and factorize_from(k, ...)
\* writes fac_H(k, k - 1): outside the matrices when k = 0
restart_oob(k) == k < 1

\* restart(nev_adj): the shift loop, fk, up to the call factorize_from(k, ncv, fk)
Restart ==
    /\ pc = "restart"
    /\ IF nev_adj >= ncv
       THEN /\ pc' = "loop" /\ it' = it + 1
            /\ hist' = [hist EXCEPT !.restarts = @ + 1, !.shifts = <<>>,
                                    !.due = @ + (ncv - nev_adj)]
            /\ UNCHANGED <<beta, fi, caller>>
       ELSE /\ \E r \in shift_loop(ritz_val, nev_adj) :
                 hist' = [hist EXCEPT !.restarts = @ + 1, !.shifts = r.shifts,
                                      !.oob = @ \/ r.oob \/ restart_oob(nev_adj),
                                      !.due = @ + (ncv - nev_adj), !.fresh = FALSE]
            /\ pc' = "factorize" /\ caller' = "restart" /\ fi' = nev_adj
            /\ UNCHANGED it
    /\ UNCHANGED <<dim_n, nev, ncv, rule, shifted, sigma, nmatop, niter, beta,
                   ritz_val, ritz_vec, ritz_conv, err, maxit, nconv, nev_adj, ret,
                   qr>>

\* restart reads or writes outside ritz_val, em or fac_H and the process is stopped
RestartAbort ==
    /\ pc = "restart"
    /\ nev_adj < ncv
    /\ \/ restart_oob(nev_adj)
       \/ \E r \in shift_loop(ritz_val, nev_adj) : r.oob
    /\ pc' = "aborted"
    /\ hist' = [hist EXCEPT !.restarts = @ + 1, !.oob = TRUE]
    /\ UNCHANGED <<dim_n, nev, ncv, rule, shifted, sigma, nmatop, niter, beta,
                   ritz_val, ritz_vec, ritz_conv, err, maxit, it, nconv, nev_adj,
                   fi, caller, ret, qr>>

\* sort_ritzpair(); niter += i + 1; return std::min(nev, nconv)
Sort ==
    /\ pc = "sort"
    /\ \E p \in sort_order(ritz_val, nev, shifted, sigma) :
        /\ ritz_val' = sorted_val(ritz_val, nev, shifted, sigma, p)
        /\ ritz_vec' = sorted_vec(ritz_vec, p)
        /\ ritz_conv' = sorted_conv(ritz_conv, p)
    /\ niter' = niter_after(niter, it)
    /\ ret' = compute_return(nev, nconv)
    /\ pc' = "ready"
    /\ UNCHANGED <<dim_n, nev, ncv, rule, shifted, sigma, nmatop, beta, err, maxit,
                   it, nconv, nev_adj, fi, caller, hist, qr>>

ComputeStep ==
    \/ FactorizeStep
    \/ RetrieveRitzpair
    \/ LoopTest
    \/ LoopExit
    \/ Adjust
    \/ AdjustAbort
    \/ Restart
    \/ RestartAbort
    \/ Sort

Next ==
    \/ Construct
    \/ InitResid
    \/ Compute
    \/ ComputeStep

Spec == Init /\ [][Next]_vars

\* compute() is synchronous code: once called, it runs on
LiveSpec == Spec /\ WF_vars(ComputeStep)

InCompute == pc \in {"factorize", "loop", "adjust", "restart", "sort"}

Returned == pc = "ready" /\ hist.last = "compute"

\* a further init() on a solver that was initialised or computed
InitAgain ==
    /\ pc = "ready"
    /\ (hist.last = "init" /\ err = "none") \/ hist.last = "compute"
    /\ hist.more < MaxMore
    /\ init(hist.more + 1)

\* a further compute() on a solver on which compute() has returned
ComputeAgain ==
    /\ pc = "ready"
    /\ hist.last = "compute"
    /\ hist.more < MaxMore
    /\ compute_entry(hist.more + 1)

CallsNext ==
    \/ Construct
    \/ InitResid
    \/ Compute
    \/ ComputeStep
    \/ InitAgain
    \/ ComputeAgain

\* any sequence of init() and compute() on one solver
CallsSpec == Init /\ [][CallsNext]_vars

(***************************************************************************)
(* DoubleShiftQR.                                                          *)
(***************************************************************************)

\* DoubleShiftQR()
QRDefaultCtor ==
    /\ qr.state = "none"
    /\ qr' = [qr EXCEPT !.state = "live", !.obj = DefaultQR, !.call = "ctor"]
    /\ UNCHANGED solver_vars

\* DoubleShiftQR(mat, s, t): the members, then compute(mat, s, t); the object
\* exists if compute returns
QRCtorFrom ==
    /\ qr.state = "none"
    /\ \E inp \in QRInputs :
         \E r \in compute([DefaultQR EXCEPT !.n = inp.rows, !.shift_s = inp.s,
                                            !.shift_t = inp.t], inp) :
            qr' = [qr EXCEPT !.state = IF r.thrown = "none" THEN "live"
                                       ELSE IF r.thrown = "abort" THEN "aborted"
                                       ELSE "gone",
                             !.obj = IF r.thrown = "none" THEN r.obj ELSE DefaultQR,
                             !.call = "ctor", !.arg = inp, !.thrown = r.thrown,
                             !.completed = r.thrown = "none"]
    /\ UNCHANGED solver_vars

\* compute(mat, s, t) on the object (on a square matrix of n >= 1 rows: while
\* the object is not computed)
QRCompute ==
    /\ qr.state = "live"
    /\ qr.done < MaxQRCalls
    /\ \E inp \in QRInputs :
         /\ (inp.rows = inp.cols /\ inp.rows > 0) => ~qr.obj.computed
         /\ \E r \in compute(qr.obj, inp) :
              qr' = [qr EXCEPT !.state = IF r.thrown = "abort" THEN "aborted" ELSE "live",
                               !.obj = r.obj, !.call = "compute", !.arg = inp,
                               !.thrown = r.thrown, !.out = <<>>,
                               !.completed = @ \/ r.thrown = "none",
                               !.done = @ + 1]
    /\ UNCHANGED solver_vars

\* matrix_QtHQ()
QRMatrixQtHQ ==
    /\ qr.state = "live"
    /\ qr.done < MaxQRCalls
    /\ qr' = [qr EXCEPT !.call = "matrix_QtHQ", !.arg = <<>>,
                        !.thrown = IF accessor_throws(qr.obj) THEN "logic_error" ELSE "none",
                        !.out = IF accessor_throws(qr.obj) THEN <<>> ELSE qr.obj.mat_H,
                        !.done = @ + 1]
    /\ UNCHANGED solver_vars

\* apply_QtY(y); what it writes is in y, not in the object
QRApplyQtY ==
    /\ qr.state = "live"
    /\ qr.done < MaxQRCalls
    /\ qr' = [qr EXCEPT !.call = "apply_QtY", !.arg = <<>>,
                        !.thrown = IF accessor_throws(qr.obj) THEN "logic_error" ELSE "none",
                        !.out = <<>>, !.done = @ + 1]
    /\ UNCHANGED solver_vars

\* apply_YQ(Y); what it writes is in Y, not in the object.  With n < 2 it
\* works outside Y and ref_u: the process is stopped or goes on
QRApplyYQ ==
    /\ qr.state = "live"
    /\ qr.done < MaxQRCalls
    /\ \E e \in IF accessor_throws(qr.obj) THEN {"logic_error"}
                ELSE IF apply_YQ_oob(qr.obj) THEN {"abort", "none"}
                ELSE {"none"} :
         qr' = [qr EXCEPT !.state = IF e = "abort" THEN "aborted" ELSE "live",
                          !.call = "apply_YQ", !.arg = <<>>, !.thrown = e,
                          !.oob = @ \/ (~accessor_throws(qr.obj) /\ apply_YQ_oob(qr.obj)),
                          !.out = <<>>, !.done = @ + 1]
    /\ UNCHANGED solver_vars

QRNext ==
    \/ QRDefaultCtor
    \/ QRCtorFrom
    \/ QRCompute
    \/ QRMatrixQtHQ
    \/ QRApplyQtY
    \/ QRApplyYQ

QRSpec == Init /\ [][QRNext]_vars

\* H(i, j) = 0 for every i > j + 1
IsUpperHessenberg(H) ==
    \A i \in 0..(Rows(H) - 1), j \in 0..(Cols(H) - 1) : i > j + 1 => El(H, i, j) = QZero

IsAccessor(c) == c \in {"matrix_QtHQ", "apply_QtY", "apply_YQ"}

\* C6: matrix_QtHQ(), apply_QtY() and apply_YQ() throw logic_error exactly
\* when no compute() has returned on the object; compute() on a matrix that
\* is not square throws invalid_argument and leaves every member of the
\* object as it was.
C6_NotComputed ==
    /\ [](IsAccessor(qr.call) => (qr.thrown = "logic_error" <=> ~qr.completed))
    /\ [][(qr'.call = "compute" /\ qr'.done = qr.done + 1 /\ qr'.arg.rows # qr'.arg.cols)
             => (qr'.thrown = "invalid_argument" /\ qr'.obj = qr.obj)]_vars

\* compute() on a matrix that is not square, on an object that was computed
C6_Witness ==
    /\ qr.call = "compute" /\ qr.arg.rows # qr.arg.cols
    /\ qr.thrown = "invalid_argument" /\ qr.obj.computed /\ qr.obj.n >= 3

\* C9: when DoubleShiftQR::compute has returned on an upper Hessenberg
\* matrix, mat_H is upper Hessenberg.
C9_StaysHessenberg ==
    (qr.state = "live" /\ qr.completed /\ qr.call \in {"ctor", "compute"}
        /\ qr.thrown = "none" /\ IsUpperHessenberg(qr.arg.mat))
    => IsUpperHessenberg(qr.obj.mat_H)

(***************************************************************************)
(* Properties of GenEigsSolver.                                            *)
(***************************************************************************)

C2_Terminates ==
    /\ [](hist.restarts <= maxit)
    /\ [][(pc = "loop" /\ pc' = "adjust") => nconv' < nev]_vars
    /\ [][(pc = "loop" /\ pc' = "sort" /\ it < maxit) => nconv' >= nev]_vars
    /\ [][hist.stopped => (hist'.restarts = hist.restarts
                           /\ pc' \notin {"adjust", "restart"})]_vars
    /\ (InCompute ~> (pc \in {"ready", "aborted"}))

\* a run stopped by a convergence check that came after a restart
C2_Witness == Returned /\ hist.stopped /\ hist.restarts >= 1

\* C3: an extension step of factorize_from that finds beta <= prec applies
\* the operator no more and leaves the factorization.
C3_StopsOnSmallBeta ==
    [][(pc = "factorize" /\ beta' = "at_most")
          => (nmatop' = nmatop /\ pc' # "factorize")]_vars

\* C4: the constructor throws invalid_argument exactly for nev < 1, nev >= n
\* or ncv <= nev; otherwise it succeeds with ncv clamped to n; it never
\* applies the operator.
C4_CtorValidation ==
    hist.last = "ctor" =>
        LET n_ == hist.arg[1]
            k == hist.arg[2]
            m == hist.arg[3]
        IN  /\ (pc = "failed" /\ err = "invalid_argument") <=> (k < 1 \/ k >= n_ \/ m <= k)
            /\ (pc = "ready" /\ err = "none") <=> (1 <= k /\ k < n_ /\ k < m)
            /\ pc = "ready" => (dim_n = n_ /\ nev = k /\ ncv = Min(m, n_))
            /\ nmatop = 0

\* a successful construction with ncv larger than n
C4_Witness == hist.last = "ctor" /\ pc = "ready" /\ hist.arg[3] > hist.arg[1]

\* C5 (as the code has it): init with a residual norm below prec throws
\* invalid_argument and applies the operator not at all; with a norm equal to
\* prec or above it, init succeeds and applies the operator exactly once.
C5_InitStrict ==
    hist.last = "init" =>
        /\ hist.arg[1] = "below" => (err = "invalid_argument" /\ nmatop = hist.ops_before)
        /\ hist.arg[1] \in {"equal", "above"} => (err = "none" /\ nmatop = hist.ops_before + 1)

\* C5 (as stated): init with a residual norm at most prec, the norm equal to
\* prec included, throws invalid_argument and applies the operator not at all;
\* with a norm above prec it succeeds and applies the operator exactly once.
C5_InitAtMost ==
    hist.last = "init" =>
        /\ hist.arg[1] \in {"below", "equal"} =>
              (err = "invalid_argument" /\ nmatop = hist.ops_before)
        /\ hist.arg[1] = "above" => (err = "none" /\ nmatop = hist.ops_before + 1)

\* init succeeded on a residual whose norm is exactly prec
C5_Witness == hist.last = "init" /\ hist.arg[1] = "equal" /\ err = "none"

\* every complex entry of s has its conjugate next to it
PairsAdjacent(s) ==
    \A i \in 1..Len(s) :
        is_complex(s[i]) =>
            \E j \in {i - 1, i + 1} : j \in 1..Len(s) /\ s[j] = Conj(s[i])

Distinct(s) == \A i, j \in 1..Len(s) : i # j => s[i] # s[j]

\* C7: after retrieve_ritzpair the two members of every conjugate pair of
\* ritz_val are at adjacent positions, whatever the selection rule (stated
\* here for Ritz values that are all different).
C7_PairsAdjacent == (pc = "loop" /\ Distinct(ritz_val)) => PairsAdjacent(ritz_val)

tail(s, k) == [i \in 1..(Len(s) - k) |-> s[k + i]]

\* C8: the width nev_adj that nev_adjusted returns does not split a conjugate
\* pair: ritz_val[nev_adj - 1] and ritz_val[nev_adj] are no pair, and the
\* values kept and the values used as shifts are each closed under
\* conjugation (stated for the calls that read inside ritz_val only).
C8_NoSplit ==
    (pc = "restart" /\ ~hist.oob) =>
        /\ nev_adj \in 1..(ncv - 1) =>
              ~(is_complex(ritz_val[nev_adj]) /\ is_conj(ritz_val[nev_adj], ritz_val[nev_adj + 1]))
        /\ nev_adj \in 0..ncv =>
              /\ ConjClosed(head(ritz_val, nev_adj))
              /\ ConjClosed(tail(ritz_val, nev_adj))

\* |v1| >= |v2|
AbsGeq(v1, v2) == ~AbsLess(v1, v2)

\* the value the caller reads for the Ritz value theta
reported(v) == IF shifted THEN shift_transform(v, sigma) ELSE v

\* C10: when compute() has returned, eigenvalues() is in non-increasing order
\* of modulus and every column of ritz_vec is the one of its value; the final
\* sort applies one permutation to the first nev values (transformed by
\* 1/theta + sigma in the shift-and-invert solver), to the columns of ritz_vec
\* and to the flags of ritz_conv.
C10_SortedByModulus ==
    /\ [](Returned =>
            /\ \A i \in 1..(Len(eigenvalues) - 1) : AbsGeq(eigenvalues[i], eigenvalues[i + 1])
            /\ \A i \in 1..nev : ritz_val[i] = reported(ritz_vec[i]))
    /\ [][pc = "sort" =>
            \E p \in Perms(nev) :
                /\ \A i \in 1..nev :
                      /\ ritz_val'[i] = reported(ritz_val[p[i]])
                      /\ ritz_vec'[i] = ritz_vec[p[i]]
                      /\ ritz_conv'[i] = ritz_conv[p[i]]
                /\ \A i \in (nev + 1)..ncv : ritz_val'[i] = ritz_val[i]]_vars

\* a shift-and-invert run under another rule that returned two values of
\* different modulus
C10_Witness ==
    /\ Returned /\ shifted /\ rule # "LARGEST_MAGN"
    /\ Len(eigenvalues) >= 2
    /\ AbsLess(eigenvalues[2], eigenvalues[1])

\* C11: when compute() has returned on a freshly constructed and initialised
\* solver, num_iterations() is the number of calls of restart that compute()
\* made, whether the loop was stopped by a convergence check or ran maxit times.
C11_IterationsAreRestarts == Returned => num_iterations = hist.restarts

\* the number of Ritz values a shift consumes
shift_width(sh) == IF sh.kind = "double" THEN 2 ELSE 1

RECURSIVE shifts_total(_)
shifts_total(shs) ==
    IF Len(shs) = 0 THEN 0 ELSE shift_width(shs[1]) + shifts_total(Tail(shs))

\* the shifts shs consume ritz_val[j], ritz_val[j + 1], ... in this order,
\* each value once, up to ritz_val[m - 1]
RECURSIVE shifts_in_order(_, _, _)
shifts_in_order(shs, j, m) ==
    IF Len(shs) = 0 THEN j = m
    ELSE /\ shs[1].i = j
         /\ j + shift_width(shs[1]) <= m
         /\ shifts_in_order(Tail(shs), j + shift_width(shs[1]), m)

\* the shift sh is the one the value ritz_val[sh.i] of rv asks for
shift_fits(rv, sh) ==
    LET v == At(rv, sh.i)
    IN  IF sh.kind = "single"
        THEN ~is_complex(v) /\ sh.mu = Cx(v.re, 0, v.den)
        ELSE /\ is_complex(v)
             /\ InRange(rv, sh.i + 1) /\ is_conj(v, At(rv, sh.i + 1))
             /\ sh.re2 = Cx(2 * v.re, 0, v.den)
             /\ sh.s = Cx(Norm2Num(v), 0, v.den * v.den)

\* C12: restart(k') consumes every unwanted Ritz value theta_i, k' <= i <= m-1,
\* as a shift exactly once and in the order of the index: a real theta_i by a
\* single shift Re(theta_i), a complex theta_i with its conjugate theta_{i+1}
\* by one double shift with 2 Re(theta_i) and |theta_i|^2, after which i+1 is
\* skipped; no complex value is applied as a real single shift, and the number
\* of shifts applied is m - k'.
C12_ShiftsConsumeUnwanted ==
    [][(pc = "restart" /\ pc' = "factorize" /\ nev_adj \in 0..(ncv - 1)) =>
          /\ shifts_in_order(hist'.shifts, nev_adj, ncv)
          /\ \A n \in 1..Len(hist'.shifts) : shift_fits(ritz_val, hist'.shifts[n])
          /\ shifts_total(hist'.shifts) = ncv - nev_adj]_vars

\* the entries of the sequence s
Range(s) == {s[i] : i \in 1..Len(s)}

\* compute() has returned on a square matrix of n >= 1 rows
QRComputed ==
    /\ qr.state = "live" /\ qr.completed
    /\ qr.call \in {"ctor", "compute"} /\ qr.thrown = "none"
    /\ qr.arg.rows = qr.arg.cols /\ qr.arg.rows >= 1

\* C13: DoubleShiftQR::compute splits H into contiguous diagonal blocks that
\* partition 0..n-1, with a boundary at every index i in 1..n-1 whose
\* subdiagonal entry H(i, i-1) meets the near-zero test; that entry is 0 in
\* mat_H; and every block that is chased (three rows or more) is unreduced:
\* none of its interior subdiagonal entries meets the test.
C13_BlocksUnreduced ==
    QRComputed =>
        LET n_ == qr.arg.rows
            H0 == hessenberg_part(qr.arg.mat)
            zero_ind == zero_ind_of(H0, n_)
        IN  /\ zero_ind[1] = 0 /\ zero_ind[Len(zero_ind)] = n_
            /\ \A b \in 1..(Len(zero_ind) - 1) : zero_ind[b] < zero_ind[b + 1]
            /\ \A i \in 1..(n_ - 1) :
                  El(H0, i, i - 1) = QZero =>
                      (i \in Range(zero_ind) /\ El(qr.obj.mat_H, i, i - 1) = QZero)
            /\ \A b \in 1..(Len(zero_ind) - 1) :
                  zero_ind[b + 1] - zero_ind[b] >= 3 =>
                      \A i \in (zero_ind[b] + 1)..(zero_ind[b + 1] - 1) :
                          El(H0, i, i - 1) # QZero

\* C14: at every point of any sequence of init() and compute() calls on one
\* solver, num_operations() is the number of operator applications made so
\* far, each counted once: one per init that succeeded, ncv - 1 for the first
\* factorization of each compute(), and ncv - k' for each restart of width k'
\* (inside factorize_from, those of its passes not yet made are still due).
C14_OpsCounted ==
    /\ num_operations = hist.op_calls
    /\ pc # "factorize" => num_operations = hist.due
    /\ pc = "factorize" => num_operations = hist.due - (ncv - fi)

\* a second compute() has returned, after restarts
C14_Witness == Returned /\ hist.more >= 1 /\ hist.restarts >= 1 /\ num_operations > 2 * ncv

\* C15: for every solver that can be constructed and every Ritz sequence,
\* compute reads ritz_val at indices in 0..ncv-1 only: nev_adjusted returns k'
\* with 1 <= k' <= ncv-1 and does not read ritz_val[k' - 1] with k' = 0, and
\* the shift loop of restart does not read ritz_val[i + 1] with i = ncv-1.
C15_ReadsInRange ==
    /\ ~hist.oob
    /\ pc = "restart" => nev_adj \in 1..(ncv - 1)

\* C16: whenever compute() has returned, ritz_conv, the mask by which
\* eigenvalues() and eigenvectors() choose, was evaluated on the Ritz values,
\* Ritz vectors and residual that are stored: no restart came between the
\* last convergence test and the return, and every value eigenvalues()
\* returns is one that passed the test.
C16_MaskIsCurrent ==
    Returned =>
        /\ hist.fresh
        /\ \A n \in 1..Len(eigenvalues) :
              eigenvalues[n] \in {reported(v) : v \in hist.passed}

=============================================================================
